---- MODULE Spec2Model ----
(***************************************************************************)
(* SolSocial: wallet-signature authentication, bearer tokens, the post     *)
(* store and the like toggle.                                              *)
(*                                                                         *)
(* Two server variants live in the repository. A deployment runs one of    *)
(* them, which the variable variant records:                               *)
(*   src/backend/backend.py  posts table with likes / liked_by, JWT auth   *)
(*   src/app.py              users and posts tables, JWT auth bound to a   *)
(*                           User row                                      *)
(* Spec is a deployment of either variant with time passing; SpecLike is   *)
(* backend.py at one instant, where the like toggle's interleavings are    *)
(* explored; SpecPosts is the post store of either variant, created and    *)
(* listed; SpecPage is GET /posts of app.py on stores of up to             *)
(* PageMaxPosts posts; SpecUsers is app.py's authentication served by      *)
(* several worker processes.                                               *)
(*                                                                         *)
(* Library calls are modelled by their contract:                           *)
(*   Pubkey.from_string    raises on a malformed address                   *)
(*   pubkey.verify         true iff the signature was made by that wallet  *)
(*                         over that message; raises on malformed bytes    *)
(*   jose jwt.encode/decode  HMAC with the server secret; decode raises    *)
(*                         JWTError on a bad signature and when            *)
(*                         exp < now (whole seconds)                       *)
(*   database.execute      one SQL statement is one atomic step            *)
(* The slowapi rate limiter and the captcha service are preconditions of   *)
(* the requests modelled here: a request the limiter refuses never reaches *)
(* the handler.                                                            *)
(***************************************************************************)
EXTENDS Integers, Sequences, FiniteSets, Bags, TLC

\* ------------------------------------------------------------------ bounds
\* Spec
MaxTime == 2          \* the clock runs 0..MaxTime
MaxTokens == 1        \* tokens issued
MaxPosts == 1         \* rows in a posts table
MaxLikes == 1         \* like_post requests that reach the store, in total
\* SpecLike
LikeMaxTokens == 2
LikeMaxPosts == 2
LikeMaxLikes == 2
\* SpecPosts
PostsMaxTokens == 1
PostsMaxPosts == 3
\* SpecPage
PageMaxPosts == 11
\* SpecUsers
UsersMaxTokens == 2
\* SpecAuth, SpecLifetime
AuthMaxTokens == 2
\* both
MaxReqs == 2          \* like_post requests in flight at once

\* ------------------------------------------------------------- input sets
\* Text fields are modelled by their length.
ContentLens == {0, 1, 280, 281}
FewContentLens == {0, 1, 281}
AuthorLens == {2, 3}
Wallets == {"w1", "w2"}
BadAddress == "not-base58"
Addresses == Wallets \cup {BadAddress}
NoSub == "none"

\* A message is its sequence of words.
Marker == <<"SolSocial", "Auth">>
MsgAuth == <<"SolSocial", "Auth", "t1">>
MsgFront == <<"Welcome", "to", "SolSocial!", "Please", "sign", "this", "message",
              "to", "verify", "your", "wallet.">>
MsgShort == <<"hi">>
Messages == {MsgAuth, MsgFront, MsgShort}

\* A signature is the pair it was made from, or bytes that are no signature.
BadSig == [signer |-> "none", msg |-> <<>>]
Sign(wallet, message) == [signer |-> wallet, msg |-> message]
Sigs == {Sign(w, MsgAuth) : w \in Wallets} \cup {Sign("w1", MsgFront), BadSig}

BackendSecret == "backend.jwt_secret"
AppSecret == "app.jwt_secret"
ForgedKey == "attacker"

NoToken == [sub |-> NoSub, exp |-> 0, key |-> "none"]
NoRow == [id |-> 0, content |-> 0, author |-> 0, wallet_address |-> NoSub,
          likes |-> 0, liked_by |-> <<>>, created_at |-> 0]

VARIABLES
    limit,               \* how far the specification explores: tokens, posts, likes,
                         \* and the content lengths requests carry
    variant,             \* the server deployed: "backend" (backend.py) or "app" (app.py)
    now,                 \* the servers' clock
    jwt_expire_minutes,  \* settings.jwt_expire_minutes
    issued,              \* tokens each server has returned
    verified,            \* (server, wallet) pairs whose pubkey.verify returned true
    posts,               \* backend.py posts table: sequence of rows, id = index
    reqs,                \* backend.py like_post requests between fetch and update (a bag)
    toggled,             \* like_post requests completed, per post and wallet
    nlikes,              \* like_post requests that reached the store
    users,               \* app.py users table: sequence of rows, id = index
    app_posts,           \* app.py posts table: sequence of rows, id = index
    resp,                \* the response of the request served last: its status code
    listed,              \* the ids of the rows the last GET of the posts returned, in order
    auth_reqs,           \* app.py wallet_auth requests between the User query and the commit (a bag)
    accepted             \* the (wallet, message, signature) triples an auth endpoint has accepted

vars == <<limit, variant, now, jwt_expire_minutes, issued, verified, posts, reqs, toggled, nlikes,
          users, app_posts, resp, listed, auth_reqs, accepted>>
backend_vars == <<posts, reqs, toggled, nlikes>>
app_vars == <<users, app_posts>>
store_vars == <<posts, users, app_posts>>

\* ---------------------------------------------------------------- helpers
\* Python: needle in haystack, on word sequences.
Contains(haystack, needle) ==
    \E i \in 1..(Len(haystack) - Len(needle) + 1) :
        SubSeq(haystack, i, i + Len(needle) - 1) = needle

\* Python: x in list
In(x, list) == \E i \in 1..Len(list) : list[i] = x

\* Python: list.append(x)
Append_(list, x) == list \o <<x>>

\* Mutant: remove() acts on a copy, the list keeps the element.
Remove_on_copy(list, x) == list

\* Python: list.remove(x), which drops the first occurrence only.
RECURSIVE Remove(_, _)
Remove(list, x) ==
    IF list = <<>> THEN <<>>
    ELSE IF Head(list) = x THEN Tail(list)
    ELSE <<Head(list)>> \o Remove(Tail(list), x)

Range(list) == {list[i] : i \in 1..Len(list)}

Response(status) == [status |-> status]

\* The response to an HTTPException of the auth endpoint, with its detail.
Refused(status, detail) == [status |-> status, detail |-> detail]

\* ------------------------------------------------- library: solders, jose
\* Pubkey.from_string(address) raises on text that is no base58 public key.
Pubkey_from_string_ok(address) == address \in Wallets

\* pubkey.verify(message, signature): "true", "false", or "raise" on bytes
\* that are no signature.
pubkey_verify(wallet_address, message, signed_message) ==
    IF signed_message = BadSig THEN "raise"
    ELSE IF signed_message.signer = wallet_address /\ signed_message.msg = message
         THEN "true"
         ELSE "false"

jwt_encode(sub, exp, secret) == [sub |-> sub, exp |-> exp, key |-> secret]

\* Mutant: the expiry comparison is reversed.
jwt_decode_exp_reversed(token, secret, t) == token.key = secret /\ token.exp < t

\* Mutant: the expiry is not checked.
jwt_decode_no_exp(token, secret, t) == token.key = secret

\* jwt.decode: JWTError on a signature made with another key, and
\* ExpiredSignatureError (a JWTError) when exp < now.
jwt_decode_ok(token, secret, t) == token.key = secret /\ ~(token.exp < t)

\* Tokens a client can present: the ones a server returned, and ones signed
\* with a key that is not a server's.
ForgedTokens == [sub : {"w1"}, exp : {MaxTime + 1}, key : {ForgedKey}]
BearerTokens == issued \cup ForgedTokens

IssuedBy(secret) == {t \in issued : t.key = secret}

\* ------------------------------------------------------------- backend.py
\* get_current_user: the wallet of the token, or 401.
get_current_user(token) ==
    IF ~jwt_decode_ok(token, BackendSecret, now)
    THEN [status |-> 401, wallet |-> NoSub]
    ELSE IF token.sub = NoSub
         THEN [status |-> 401, wallet |-> NoSub]
         ELSE [status |-> 200, wallet |-> token.sub]

\* Mutant: a triple that was accepted before is refused.
verify_signed_message_single_use(wallet_address, message, signed_message) ==
    IF <<wallet_address, message, signed_message>> \in accepted THEN FALSE
    ELSE IF ~Contains(message, Marker) THEN FALSE
    ELSE IF ~Pubkey_from_string_ok(wallet_address) THEN FALSE
    ELSE LET r == pubkey_verify(wallet_address, message, signed_message)
         IN  IF r = "raise" THEN FALSE ELSE r = "true"

\* Mutant: an exception from the verification is taken for success.
verify_signed_message_fail_open(wallet_address, message, signed_message) ==
    IF ~Contains(message, Marker) THEN FALSE
    ELSE IF ~Pubkey_from_string_ok(wallet_address) THEN FALSE
    ELSE LET r == pubkey_verify(wallet_address, message, signed_message)
         IN  IF r = "raise" THEN TRUE ELSE r = "true"

verify_signed_message(wallet_address, message, signed_message) ==
    IF ~Contains(message, Marker) THEN FALSE
    ELSE IF ~Pubkey_from_string_ok(wallet_address) THEN FALSE
    ELSE LET r == pubkey_verify(wallet_address, message, signed_message)
         IN  IF r = "raise" THEN FALSE ELSE r = "true"

\* Whether the request ran pubkey.verify and it returned true.
backend_verify_ran_true(wallet_address, message, signed_message) ==
    /\ Contains(message, Marker)
    /\ Pubkey_from_string_ok(wallet_address)
    /\ pubkey_verify(wallet_address, message, signed_message) = "true"

\* POST /api/auth/wallet
wallet_auth(wallet_address, message, signed_message) ==
    LET ok == verify_signed_message(wallet_address, message, signed_message)
        token == jwt_encode(wallet_address, now + jwt_expire_minutes, BackendSecret)
    IN  /\ verified' = verified \cup
               (IF backend_verify_ran_true(wallet_address, message, signed_message)
                THEN {<<BackendSecret, wallet_address>>} ELSE {})
        /\ IF ~ok
           THEN /\ resp' = Refused(401, "Wallet verification failed")
                /\ UNCHANGED <<issued, accepted>>
           ELSE /\ token \in issued \/ Cardinality(IssuedBy(BackendSecret)) < limit.tokens
                /\ issued' = issued \cup {token}
                /\ accepted' = accepted \cup {<<wallet_address, message, signed_message>>}
                /\ resp' = Response(200)
        /\ UNCHANGED <<limit, variant, listed, auth_reqs, now, jwt_expire_minutes, backend_vars, app_vars>>

\* Mutant: PostCreate without max_length on content.
PostCreate_ok_no_max(post) ==
    /\ post.content >= 1
    /\ post.author >= 3 /\ post.author <= 50
    /\ Pubkey_from_string_ok(post.wallet_address)

\* PostCreate: content 1..280, author 3..50, wallet_address a public key.
PostCreate_ok(post) ==
    /\ post.content >= 1 /\ post.content <= 280
    /\ post.author >= 3 /\ post.author <= 50
    /\ Pubkey_from_string_ok(post.wallet_address)

PostCreateBodies == [content : limit.contents, author : AuthorLens, wallet_address : Addresses]

\* Mutant: the key generator hands out the key of the latest row again.
primary_key_reused(table) == IF table = <<>> THEN 1 ELSE Len(table)

\* Integer primary_key=True: the database generates the key of an inserted
\* row, one more than the keys it has generated for the table.
primary_key(table) == Len(table) + 1

\* POST /api/posts
create_post(token, post) ==
    LET user == get_current_user(token)
        record_id == primary_key(posts)
        row == [id |-> record_id, content |-> post.content, author |-> post.author,
                wallet_address |-> post.wallet_address, likes |-> 0,
                liked_by |-> <<>>, created_at |-> now]
    IN  /\ IF user.status # 200
           THEN /\ resp' = Response(401)
                /\ UNCHANGED posts
           ELSE IF ~PostCreate_ok(post)
           THEN /\ resp' = Response(422)
                /\ UNCHANGED posts
           ELSE IF user.wallet # post.wallet_address
           THEN /\ resp' = Response(403)
                /\ UNCHANGED posts
           ELSE /\ Len(posts) < limit.posts
                /\ posts' = Append(posts, row)
                /\ resp' = Response(200)
        /\ UNCHANGED <<limit, variant, accepted, listed, auth_reqs, now, jwt_expire_minutes, issued, verified, reqs, toggled, nlikes,
                       app_vars>>

\* Mutant: the like branch appends the wallet and forgets the increment.
toggle_no_increment(post, wallet_address) ==
    IF ~In(wallet_address, post.liked_by)
    THEN [liked_by |-> Append_(post.liked_by, wallet_address), new_likes |-> post.likes]
    ELSE [liked_by |-> Remove(post.liked_by, wallet_address), new_likes |-> post.likes - 1]

\* Mutant: the unlike branch removes the wallet and forgets the decrement.
toggle_no_decrement(post, wallet_address) ==
    IF ~In(wallet_address, post.liked_by)
    THEN [liked_by |-> Append_(post.liked_by, wallet_address), new_likes |-> post.likes + 1]
    ELSE [liked_by |-> Remove(post.liked_by, wallet_address), new_likes |-> post.likes]

\* Mutant: the wallet is appended without looking whether it is in the list.
toggle_append_unseen(post, wallet_address) ==
    [liked_by |-> Append_(post.liked_by, wallet_address), new_likes |-> post.likes + 1]

\* like_post, lines 204-210: the new liked_by and likes computed from the
\* row that fetch_one returned.
toggle(post, wallet_address) ==
    IF ~In(wallet_address, post.liked_by)
    THEN [liked_by |-> Append_(post.liked_by, wallet_address), new_likes |-> post.likes + 1]
    ELSE [liked_by |-> Remove(post.liked_by, wallet_address), new_likes |-> post.likes - 1]

\* Mutant: the UPDATE also blanks the content of the row.
update_row_blanks_content(table, post_id, new_likes, liked_by) ==
    [i \in 1..Len(table) |->
        IF table[i].id = post_id
        THEN [table[i] EXCEPT !.likes = new_likes, !.liked_by = liked_by, !.content = 0]
        ELSE table[i]]

\* Mutant: the UPDATE has no WHERE clause.
update_row_no_where(table, post_id, new_likes, liked_by) ==
    [i \in 1..Len(table) |-> [table[i] EXCEPT !.likes = new_likes, !.liked_by = liked_by]]

\* The UPDATE statement of like_post, lines 211-216.
update_row(table, post_id, new_likes, liked_by) ==
    [i \in 1..Len(table) |->
        IF table[i].id = post_id
        THEN [table[i] EXCEPT !.likes = new_likes, !.liked_by = liked_by]
        ELSE table[i]]

PostIds == 1..(limit.posts + 1)

\* like_post run alone: fetch_one and the UPDATE with no other request between.
like_post_alone(table, post_id, wallet_address) ==
    LET t == toggle(table[post_id], wallet_address)
    IN  update_row(table, post_id, t.new_likes, t.liked_by)

\* Mutant: a missing row is not noticed, the handler answers 200.
LikeFetch_no_404(token, post_id) ==
    LET user == get_current_user(token)
    IN  /\ IF user.status # 200
           THEN /\ resp' = Response(401)
                /\ UNCHANGED <<reqs, nlikes>>
           ELSE IF post_id \notin 1..Len(posts)
           THEN /\ resp' = Response(200)
                /\ UNCHANGED <<reqs, nlikes>>
           ELSE LET post == posts[post_id]
                    t == toggle(post, user.wallet)
                    req == [wallet_address |-> user.wallet, post_id |-> post_id,
                            post |-> post, new_likes |-> t.new_likes,
                            liked_by |-> t.liked_by]
                IN  /\ BagCardinality(reqs) < MaxReqs
                    /\ nlikes < limit.likes
                    /\ reqs' = reqs (+) SetToBag({req})
                    /\ nlikes' = nlikes + 1
                    /\ UNCHANGED resp
        /\ UNCHANGED <<limit, variant, accepted, listed, auth_reqs, now, jwt_expire_minutes, issued, verified, posts, toggled, app_vars>>

\* POST /api/posts/{post_id}/like, up to the await of the UPDATE:
\* get_current_user, fetch_one, the new values.
LikeFetch(token, post_id) ==
    LET user == get_current_user(token)
    IN  /\ IF user.status # 200
           THEN /\ resp' = Response(401)
                /\ UNCHANGED <<reqs, nlikes>>
           ELSE IF post_id \notin 1..Len(posts)
           THEN /\ resp' = Response(404)
                /\ UNCHANGED <<reqs, nlikes>>
           ELSE LET post == posts[post_id]
                    t == toggle(post, user.wallet)
                    req == [wallet_address |-> user.wallet, post_id |-> post_id,
                            post |-> post, new_likes |-> t.new_likes,
                            liked_by |-> t.liked_by]
                IN  /\ BagCardinality(reqs) < MaxReqs
                    /\ nlikes < limit.likes
                    /\ reqs' = reqs (+) SetToBag({req})
                    /\ nlikes' = nlikes + 1
                    /\ UNCHANGED resp
        /\ UNCHANGED <<limit, variant, accepted, listed, auth_reqs, now, jwt_expire_minutes, issued, verified, posts, toggled, app_vars>>

\* like_post from the UPDATE to the response.
LikeUpdate(req) ==
    /\ BagIn(req, reqs)
    /\ posts' = update_row(posts, req.post_id, req.new_likes, req.liked_by)
    /\ reqs' = reqs (-) SetToBag({req})
    /\ toggled' = [toggled EXCEPT ![req.post_id][req.wallet_address] = @ + 1]
    /\ resp' = Response(200)
    /\ UNCHANGED <<limit, variant, accepted, listed, auth_reqs, now, jwt_expire_minutes, issued, verified, nlikes, app_vars>>

\* Time passes.
Tick ==
    /\ now < MaxTime
    /\ now' = now + 1
    /\ UNCHANGED <<limit, variant, accepted, listed, auth_reqs, jwt_expire_minutes, issued, verified, backend_vars, app_vars, resp>>

\* The clock counts in units of the configured token lifetime.
Lifetimes == {1}

\* The setting is an int read from the environment with no check: a negative,
\* a zero and a positive lifetime.
AnyLifetimes == {-1, 0, 1}

Start(l) ==
    /\ limit = l
    /\ variant \in {"backend", "app"}
    /\ now = 0
    /\ jwt_expire_minutes \in l.lifetimes
    /\ issued = {}
    /\ verified = {}
    /\ posts = <<>>
    /\ reqs = EmptyBag
    /\ toggled = [p \in 1..l.posts |-> [w \in Wallets |-> 0]]
    /\ nlikes = 0
    /\ users = <<>>
    /\ app_posts = <<>>
    /\ resp = Response(0)
    /\ listed = <<>>
    /\ auth_reqs = EmptyBag
    /\ accepted = {}

\* ----------------------------------------------------------------- app.py
\* The number of characters of a message: its words and the spaces between.
WordChars(word) ==
    CASE word \in {"hi", "t1", "to"} -> 2
      [] word \in {"Auth", "sign", "this", "your"} -> 4
      [] word = "Please" -> 6
      [] word \in {"Welcome", "message", "wallet."} -> 7
      [] word = "verify" -> 6
      [] word = "SolSocial" -> 9
      [] word = "SolSocial!" -> 10

RECURSIVE MessageChars(_)
MessageChars(message) ==
    IF message = <<>> THEN 0
    ELSE WordChars(Head(message))
         + (IF Len(message) > 1 THEN 1 ELSE 0) + MessageChars(Tail(message))

\* WalletAuthRequest: wallet_address a public key, message of 10 characters or more.
WalletAuthRequest_ok(wallet_address, message) ==
    /\ Pubkey_from_string_ok(wallet_address)
    /\ MessageChars(message) >= 10

CaptchaOutcomes == {"success", "failure", "error"}

\* The row of the users table with this wallet_address, or 0.
user_by_wallet(table, wallet_address) ==
    IF \E i \in 1..Len(table) : table[i].wallet_address = wallet_address
    THEN CHOOSE i \in 1..Len(table) : table[i].wallet_address = wallet_address
    ELSE 0

Null == "<null>"
Unset == "<unset>"

\* Mutant: an exception of pubkey.verify is not caught and FastAPI answers 500.
app_verify_status_unhandled(wallet_address, message, signed_message) ==
    LET r == pubkey_verify(wallet_address, message, signed_message)
    IN  IF r = "raise" THEN 500
        ELSE IF r = "false" THEN 400
        ELSE 200

\* wallet_auth, lines 242-254: the status the try block leaves with, 200 when
\* it falls through. The HTTPException(401) of line 246 is raised inside the
\* try and caught by the except Exception of line 250.
app_verify_status(wallet_address, message, signed_message) ==
    LET r == pubkey_verify(wallet_address, message, signed_message)
    IN  IF r = "raise" THEN 400
        ELSE IF r = "false" THEN 400
        ELSE 200

\* POST /auth/wallet
app_wallet_auth(wallet_address, message, signed_message, captcha) ==
    LET status == app_verify_status(wallet_address, message, signed_message)
        token == jwt_encode(wallet_address, now + jwt_expire_minutes, AppSecret)
        found == user_by_wallet(users, wallet_address)
        user == [id |-> Len(users) + 1, wallet_address |-> wallet_address,
                 username |-> Null, bio |-> Null]
        reached == WalletAuthRequest_ok(wallet_address, message) /\ captcha = "success"
    IN  /\ verified' = verified \cup
               (IF reached /\ pubkey_verify(wallet_address, message, signed_message) = "true"
                THEN {<<AppSecret, wallet_address>>} ELSE {})
        /\ IF ~WalletAuthRequest_ok(wallet_address, message)
           THEN /\ resp' = Response(422)
                /\ UNCHANGED <<issued, users, accepted>>
           ELSE IF captcha = "error"
           THEN /\ resp' = Response(503)
                /\ UNCHANGED <<issued, users, accepted>>
           ELSE IF captcha = "failure"
           THEN /\ resp' = Refused(400, "Captcha verification failed")
                /\ UNCHANGED <<issued, users, accepted>>
           ELSE IF status # 200
           THEN /\ resp' = Refused(status, "str(e)")
                /\ UNCHANGED <<issued, users, accepted>>
           ELSE /\ token \in issued \/ Cardinality(IssuedBy(AppSecret)) < limit.tokens
                /\ users' = IF found = 0 THEN Append(users, user) ELSE users
                /\ issued' = issued \cup {token}
                /\ accepted' = accepted \cup {<<wallet_address, message, signed_message>>}
                /\ resp' = Response(200)
        /\ UNCHANGED <<limit, variant, listed, auth_reqs, now, jwt_expire_minutes, backend_vars, app_posts>>

\* POST /auth/wallet served by one of several worker processes, up to the
\* User query of line 256: another worker's statements can run before this
\* request goes on.
AuthQuery(wallet_address, message, signed_message, captcha) ==
    LET status == app_verify_status(wallet_address, message, signed_message)
        found == user_by_wallet(users, wallet_address)
        req == [wallet_address |-> wallet_address, message |-> message,
                signed_message |-> signed_message, found |-> found # 0]
    IN  /\ IF ~WalletAuthRequest_ok(wallet_address, message)
           THEN /\ resp' = Response(422)
                /\ UNCHANGED <<verified, auth_reqs>>
           ELSE IF captcha = "error"
           THEN /\ resp' = Response(503)
                /\ UNCHANGED <<verified, auth_reqs>>
           ELSE IF captcha = "failure"
           THEN /\ resp' = Refused(400, "Captcha verification failed")
                /\ UNCHANGED <<verified, auth_reqs>>
           ELSE IF status # 200
           THEN /\ resp' = Refused(status, "str(e)")
                /\ UNCHANGED <<verified, auth_reqs>>
           ELSE /\ BagCardinality(auth_reqs) < MaxReqs
                /\ verified' = verified \cup {<<AppSecret, wallet_address>>}
                /\ auth_reqs' = auth_reqs (+) SetToBag({req})
                /\ UNCHANGED resp
        /\ UNCHANGED <<limit, variant, accepted, listed, now, jwt_expire_minutes, issued, backend_vars, app_vars>>

\* The rest of that request, lines 257-268: the INSERT and commit of a User
\* that the query did not find, then the token. users.wallet_address is
\* UNIQUE: the commit raises IntegrityError when the row exists by now, which
\* nothing catches.
AuthCommit(req) ==
    LET token == jwt_encode(req.wallet_address, now + jwt_expire_minutes, AppSecret)
        user == [id |-> Len(users) + 1, wallet_address |-> req.wallet_address,
                 username |-> Null, bio |-> Null]
    IN  /\ BagIn(req, auth_reqs)
        /\ auth_reqs' = auth_reqs (-) SetToBag({req})
        /\ IF ~req.found /\ user_by_wallet(users, req.wallet_address) # 0
           THEN /\ resp' = Response(500)
                /\ UNCHANGED <<users, issued, accepted>>
           ELSE /\ token \in issued \/ Cardinality(IssuedBy(AppSecret)) < limit.tokens
                /\ users' = IF req.found THEN users ELSE Append(users, user)
                /\ issued' = issued \cup {token}
                /\ accepted' = accepted \cup
                       {<<req.wallet_address, req.message, req.signed_message>>}
                /\ resp' = Response(200)
        /\ UNCHANGED <<limit, variant, listed, now, jwt_expire_minutes, verified, backend_vars,
                       app_posts>>

\* get_current_user: the index of the token's User row, or 401.
app_get_current_user(token) ==
    IF ~jwt_decode_ok(token, AppSecret, now)
    THEN [status |-> 401, user |-> 0]
    ELSE IF token.sub = NoSub
    THEN [status |-> 401, user |-> 0]
    ELSE IF user_by_wallet(users, token.sub) = 0
    THEN [status |-> 401, user |-> 0]
    ELSE [status |-> 200, user |-> user_by_wallet(users, token.sub)]

\* GET /users/me
read_current_user(token) ==
    /\ resp' = Response(app_get_current_user(token).status)
    /\ UNCHANGED <<limit, variant, accepted, listed, auth_reqs, now, jwt_expire_minutes, issued, verified, backend_vars, app_vars>>

UsernameInputs == {Unset, Null, "ann", "al"}
BioInputs == {Unset, Null, "hello"}
UserUpdates == [username : UsernameInputs, bio : BioInputs]

\* UserUpdate: username of 3 to 50 characters when given.
UserUpdate_ok(user_update) == user_update.username # "al"

\* PATCH /users/me
update_current_user(token, user_update) ==
    LET cur == app_get_current_user(token)
        old == users[cur.user]
        new == [old EXCEPT
                  !.username = IF user_update.username = Unset THEN @ ELSE user_update.username,
                  !.bio = IF user_update.bio = Unset THEN @ ELSE user_update.bio]
        \* users.username is UNIQUE: the commit raises IntegrityError.
        clash == /\ new.username # Null
                 /\ \E i \in 1..Len(users) : i # cur.user /\ users[i].username = new.username
    IN  /\ IF cur.status # 200
           THEN /\ resp' = Response(401)
                /\ UNCHANGED users
           ELSE IF ~UserUpdate_ok(user_update)
           THEN /\ resp' = Response(422)
                /\ UNCHANGED users
           ELSE IF clash
           THEN /\ resp' = Response(500)
                /\ UNCHANGED users
           ELSE /\ users' = [users EXCEPT ![cur.user] = new]
                /\ resp' = Response(200)
        /\ UNCHANGED <<limit, variant, accepted, listed, auth_reqs, now, jwt_expire_minutes, issued, verified, backend_vars, app_posts>>

\* PostCreate of app.py: content 1..280.
app_PostCreate_ok(content) == content >= 1 /\ content <= 280

\* POST /posts
app_create_post(token, content) ==
    LET cur == app_get_current_user(token)
        db_post == [id |-> primary_key(app_posts), content |-> content,
                    author_wallet |-> users[cur.user].wallet_address,
                    created_at |-> now]
    IN  /\ IF cur.status # 200
           THEN /\ resp' = Response(401)
                /\ UNCHANGED app_posts
           ELSE IF ~app_PostCreate_ok(content)
           THEN /\ resp' = Response(422)
                /\ UNCHANGED app_posts
           ELSE /\ Len(app_posts) < limit.posts
                /\ app_posts' = Append(app_posts, db_post)
                /\ resp' = Response(200)
        /\ UNCHANGED <<limit, variant, accepted, listed, auth_reqs, now, jwt_expire_minutes, issued, verified, backend_vars, users>>

\* ------------------------------------------------------------ GET of posts
\* ORDER BY created_at DESC: the orders of the table's ids that a database
\* can return. Rows with equal created_at come in any order.
RECURSIVE order_by_created_at_desc(_, _)
order_by_created_at_desc(table, ids) ==
    IF ids = {} THEN {<<>>}
    ELSE LET latest == {i \in ids : \A j \in ids : table[i].created_at >= table[j].created_at}
         IN  UNION {{<<i>> \o rest : rest \in order_by_created_at_desc(table, ids \ {i})}
                    : i \in latest}

\* OFFSET skip LIMIT n on an ordered result.
offset_limit(rows, skip, n) ==
    SubSeq(rows, skip + 1, IF skip + n < Len(rows) THEN skip + n ELSE Len(rows))

\* backend.py GET /api/posts: the results fetch_all can return.
get_posts(table) == order_by_created_at_desc(table, 1..Len(table))

\* app.py GET /posts: the results the query can return.
skip_default == 0
limit_default == 10
app_get_posts(table, skip, n) ==
    {offset_limit(rows, skip, n) : rows \in order_by_created_at_desc(table, 1..Len(table))}

backend_list ==
    /\ \E rows \in get_posts(posts) : listed' = rows
    /\ resp' = Response(200)
    /\ UNCHANGED <<limit, variant, accepted, auth_reqs, now, jwt_expire_minutes, issued, verified, backend_vars,
                   app_vars>>

\* GET /posts with no parameters
app_list ==
    /\ \E rows \in app_get_posts(app_posts, skip_default, limit_default) : listed' = rows
    /\ resp' = Response(200)
    /\ UNCHANGED <<limit, variant, accepted, auth_reqs, now, jwt_expire_minutes, issued, verified, backend_vars,
                   app_vars>>

BackendAuth ==
    /\ variant = "backend"
    /\ \E a \in Addresses, m \in Messages, s \in Sigs : wallet_auth(a, m, s)
BackendCreate ==
    /\ variant = "backend"
    /\ \E t \in BearerTokens, b \in PostCreateBodies : create_post(t, b)
BackendLikeFetch ==
    /\ variant = "backend"
    /\ \E t \in BearerTokens, p \in PostIds : LikeFetch(t, p)
BackendLikeUpdate ==
    /\ variant = "backend"
    /\ \E q \in BagToSet(reqs) : LikeUpdate(q)
AppAuth ==
    /\ variant = "app"
    /\ \E a \in Addresses, m \in Messages, s \in Sigs, c \in CaptchaOutcomes :
          \* the signature is not read when the captcha does not pass
          /\ c = "success" \/ s = BadSig
          /\ app_wallet_auth(a, m, s, c)
AppReadMe ==
    /\ variant = "app"
    /\ \E t \in BearerTokens : read_current_user(t)
AppUpdateMe ==
    /\ variant = "app"
    /\ \E t \in BearerTokens, u \in UserUpdates : update_current_user(t, u)
AppCreate ==
    /\ variant = "app"
    /\ \E t \in BearerTokens, c \in limit.contents : app_create_post(t, c)

\* A deployment of either variant.
Init == Start([tokens |-> MaxTokens, posts |-> MaxPosts, likes |-> MaxLikes,
              contents |-> FewContentLens,
              lifetimes |-> Lifetimes])
Next ==
    \/ BackendAuth \/ BackendCreate \/ BackendLikeFetch \/ BackendLikeUpdate
    \/ AppAuth \/ AppReadMe \/ AppUpdateMe \/ AppCreate
    \/ Tick
Spec == Init /\ [][Next]_vars

BackendList == variant = "backend" /\ backend_list
AppList == variant = "app" /\ app_list

\* backend.py at one instant: authentication, posts and likes.
InitLike ==
    /\ Start([tokens |-> LikeMaxTokens, posts |-> LikeMaxPosts, likes |-> LikeMaxLikes,
              contents |-> FewContentLens,
              lifetimes |-> Lifetimes])
    /\ variant = "backend"
NextLike == BackendAuth \/ BackendCreate \/ BackendLikeFetch \/ BackendLikeUpdate
SpecLike == InitLike /\ [][NextLike]_vars

\* The post store of either variant: posts are created and listed as time passes.
InitPosts == Start([tokens |-> PostsMaxTokens, posts |-> PostsMaxPosts, likes |-> 0,
                    contents |-> ContentLens,
              lifetimes |-> Lifetimes])
NextPosts ==
    \/ BackendAuth \/ BackendCreate \/ BackendList
    \/ AppAuth \/ AppCreate \/ AppList
    \/ Tick
SpecPosts == InitPosts /\ [][NextPosts]_vars

\* app.py at one instant, served by several worker processes: wallets
\* authenticate.
AppAuthQuery ==
    /\ variant = "app"
    /\ \E a \in Addresses, m \in Messages, s \in Sigs, c \in CaptchaOutcomes :
          /\ c = "success" \/ s = BadSig
          /\ AuthQuery(a, m, s, c)
AppAuthCommit ==
    /\ variant = "app"
    /\ \E q \in BagToSet(auth_reqs) : AuthCommit(q)
InitUsers ==
    /\ Start([tokens |-> UsersMaxTokens, posts |-> 0, likes |-> 0, contents |-> FewContentLens,
              lifetimes |-> Lifetimes])
    /\ variant = "app"
NextUsers == AppAuthQuery \/ AppAuthCommit \/ AppReadMe \/ AppUpdateMe
SpecUsers == InitUsers /\ [][NextUsers]_vars

\* The auth endpoint of either variant as time passes.
InitAuth == Start([tokens |-> AuthMaxTokens, posts |-> 0, likes |-> 0,
                   contents |-> FewContentLens, lifetimes |-> Lifetimes])
NextAuth == BackendAuth \/ AppAuth \/ AppReadMe \/ Tick
SpecAuth == InitAuth /\ [][NextAuth]_vars

\* The auth endpoint of either variant, configured with any lifetime.
InitLifetime == Start([tokens |-> AuthMaxTokens, posts |-> 0, likes |-> 0,
                       contents |-> FewContentLens, lifetimes |-> AnyLifetimes])
SpecLifetime == InitLifetime /\ [][NextAuth]_vars

\* ------------------------------------------------------------ sol_front.py
\* BACKEND_URL is read from the environment; the request goes to
\* BACKEND_URL + "/auth/wallet". A URL path is its sequence of segments.
BackendUrlPaths == {<<>>, <<"api">>}
backend_auth_route == <<"api", "auth", "wallet">>

\* phantom_login: what the wallet signs and the page hands to Streamlit.
phantom_login(wallet) ==
    [wallet_address |-> wallet, message |-> MsgFront,
     signed_message |-> Sign(wallet, MsgFront)]

\* Lines 180-204: the frontend posts the signed message to the backend; a
\* path that is no route of backend.py is answered 404.
front_login(wallet, backend_url) ==
    LET body == phantom_login(wallet)
    IN  IF backend_url \o <<"auth", "wallet">> # backend_auth_route
        THEN /\ resp' = Response(404)
             /\ UNCHANGED <<limit, variant, accepted, listed, auth_reqs, now, jwt_expire_minutes,
                            issued, verified, backend_vars, app_vars>>
        ELSE wallet_auth(body.wallet_address, body.message, body.signed_message)

FrontLogin ==
    /\ variant = "backend"
    /\ \E w \in Wallets, u \in BackendUrlPaths : front_login(w, u)

\* backend.py with users who log in through the frontend, and clients of the
\* API; the frontend's requests are served.
InitFront ==
    /\ Start([tokens |-> MaxTokens, posts |-> MaxPosts, likes |-> MaxLikes,
              contents |-> FewContentLens, lifetimes |-> Lifetimes])
    /\ variant = "backend"
NextFront ==
    \/ FrontLogin
    \/ BackendAuth \/ BackendCreate \/ BackendLikeFetch \/ BackendLikeUpdate \/ BackendList
    \/ Tick
SpecFront == InitFront /\ [][NextFront]_vars /\ WF_vars(FrontLogin)

\* GET /posts of app.py, on the store as it is after one wallet has
\* authenticated and created a post at each clock reading 1..n.
InitPage ==
    \E n \in 0..PageMaxPosts : \E content \in [1..n -> {1, 280}] :
        /\ limit = [tokens |-> PageMaxPosts, posts |-> PageMaxPosts, likes |-> 0,
                    contents |-> {1, 280}, lifetimes |-> Lifetimes]
        /\ variant = "app"
        /\ now = n
        /\ jwt_expire_minutes \in Lifetimes
        /\ issued = {jwt_encode("w1", t + jwt_expire_minutes, AppSecret) : t \in 1..n}
        /\ verified = IF n = 0 THEN {} ELSE {<<AppSecret, "w1">>}
        /\ posts = <<>>
        /\ reqs = EmptyBag
        /\ toggled = <<>>
        /\ nlikes = 0
        /\ users = IF n = 0 THEN <<>>
                   ELSE <<[id |-> 1, wallet_address |-> "w1", username |-> Null, bio |-> Null]>>
        /\ app_posts = [i \in 1..n |-> [id |-> i, content |-> content[i],
                                         author_wallet |-> "w1", created_at |-> i]]
        /\ resp = Response(IF n = 0 THEN 0 ELSE 200)
        /\ listed = <<>>
        /\ auth_reqs = EmptyBag
        /\ accepted = IF n = 0 THEN {} ELSE {<<"w1", MsgAuth, Sign("w1", MsgAuth)>>}
NextPage == AppList
SpecPage == InitPage /\ [][NextPage]_vars

\* ------------------------------------------------------------ like toggle
InFlight(post_id) == {q \in BagToSet(reqs) : q.post_id = post_id}
LikedSet(post_id) == Range(posts[post_id].liked_by)

\* C1: in every reachable state, with toggles interleaving their fetch and
\* update steps in every way, each post has likes = Len(liked_by).
C1_LikesEqualsLikedBy ==
    \A i \in 1..Len(posts) : posts[i].likes = Len(posts[i].liked_by)

\* Two toggles by different wallets ran to completion on one post and one of
\* them was lost: they interleaved.
C1_Witness ==
    \E i \in 1..Len(posts) :
        /\ toggled[i]["w1"] = 1 /\ toggled[i]["w2"] = 1
        /\ posts[i].likes = 1

\* C2: when every wallet has completed exactly one like_post on a post and no
\* request on it is in flight, the post has likes = N and liked_by holds
\* exactly those N wallets.
C2_AllConcurrentLikesCounted ==
    \A i \in 1..Len(posts) :
        (InFlight(i) = {} /\ \A w \in Wallets : toggled[i][w] = 1)
            => /\ posts[i].likes = Cardinality(Wallets)
               /\ LikedSet(i) = Wallets

\* C3: toggles on one post are linearizable: with no request on the post in
\* flight, its liked_by is what the completed toggles give when applied one
\* at a time in some order, which is in any order the wallets that toggled
\* an odd number of times.
C3_Linearizable ==
    \A i \in 1..Len(posts) :
        InFlight(i) = {}
            => LET odd == {w \in Wallets : toggled[i][w] % 2 = 1}
               IN  LikedSet(i) = odd /\ posts[i].likes = Cardinality(odd)

\* C4: like_post run twice in a row by one wallet on one post, with no other
\* request between, restores the post's likes and the set of wallets in
\* liked_by.
C4_ToggleTwiceRestores ==
    \A i \in 1..Len(posts), w \in Wallets :
        LET twice == like_post_alone(like_post_alone(posts, i, w), i, w)
        IN  /\ twice[i].likes = posts[i].likes
            /\ Range(twice[i].liked_by) = LikedSet(i)
            /\ \A j \in 1..Len(posts) : j # i => twice[j] = posts[j]

\* A post liked by one wallet and not by the other: the double toggle goes
\* remove-then-add for the first and add-then-remove for the second.
C4_Witness ==
    \E i \in 1..Len(posts) : posts[i].liked_by = <<"w1">> /\ posts[i].likes = 1

\* A like_post request completes in this step, and the row it fetched is the
\* row the store holds: nothing interfered.
CompletesAlone(q) ==
    /\ BagIn(q, reqs)
    /\ reqs' = reqs (-) SetToBag({q})
    /\ q.post = posts[q.post_id]

\* C5: a like_post that runs without interference adds an absent wallet and
\* raises likes by 1, or removes a present wallet and lowers likes by 1, and
\* leaves every other wallet's membership as it was.
C5_TwoStateTransition ==
    [][\A q \in BagToSet(reqs) :
          CompletesAlone(q) =>
              LET old == posts[q.post_id]
                  new == posts'[q.post_id]
                  w == q.wallet_address
              IN  /\ IF ~In(w, old.liked_by)
                     THEN In(w, new.liked_by) /\ new.likes = old.likes + 1
                     ELSE ~In(w, new.liked_by) /\ new.likes = old.likes - 1
                  /\ \A v \in Wallets \ {w} : In(v, new.liked_by) <=> In(v, old.liked_by)
      ]_vars

\* One wallet liked and then unliked a post, one request after the other,
\* and these were the only requests: both branches have run alone.
C5_Witness ==
    \E i \in 1..Len(posts) :
        /\ toggled[i]["w1"] = 2
        /\ nlikes = 2
        /\ posts[i].liked_by = <<>>

\* C6: like_post with a valid token on a post id that is not in the store
\* answers 404 and changes no post and no request in flight.
C6_MissingPostNotFound ==
    [][\A t \in BearerTokens, p \in PostIds :
          (/\ get_current_user(t).status = 200
           /\ p \notin 1..Len(posts)
           /\ LikeFetch(t, p))
              => resp' = Response(404) /\ UNCHANGED <<posts, reqs, toggled>>
      ]_vars

\* A 404, which only like_post answers, while the store holds a liked post.
C6_Witness ==
    /\ resp = Response(404)
    /\ Len(posts) >= 1
    /\ posts[1].likes = 1

\* --------------------------------------------------------- authentication
ServerSecret == IF variant = "backend" THEN BackendSecret ELSE AppSecret

\* The server's get_current_user accepts the token as this wallet.
AcceptedAs(token, wallet) ==
    IF variant = "backend"
    THEN get_current_user(token) = [status |-> 200, wallet |-> wallet]
    ELSE /\ app_get_current_user(token).status = 200
         /\ users[app_get_current_user(token).user].wallet_address = wallet

\* C7: a token the auth endpoint has just minted is accepted by
\* get_current_user, which yields the wallet it was minted for.
C7_TokenRoundTrip ==
    [][\A t \in issued' \ issued : AcceptedAs(t, t.sub)']_vars

\* app.py has just answered an authentication with a token.
C7_Witness ==
    /\ variant = "app"
    /\ resp = Response(200)
    /\ \E t \in issued : t.key = AppSecret /\ t.exp = now + jwt_expire_minutes

\* The step is a request to an endpoint that takes a bearer credential,
\* made with this token.
ProtectedRequest(token) ==
    \/ variant = "backend" /\ \E b \in PostCreateBodies : create_post(token, b)
    \/ variant = "backend" /\ \E p \in PostIds : LikeFetch(token, p)
    \/ variant = "app" /\ read_current_user(token)
    \/ variant = "app" /\ \E u \in UserUpdates : update_current_user(token, u)
    \/ variant = "app" /\ \E c \in ContentLens : app_create_post(token, c)

Rejected401 == resp'.status = 401 /\ UNCHANGED <<posts, reqs, toggled, users, app_posts, issued>>

\* C8 as stated: a token whose expiry is not after the current time, or that
\* is not signed with the server secret, is rejected with 401 by every
\* endpoint that takes a bearer credential, and nothing stored changes.
C8_NotAfterNowRejected ==
    [][\A t \in BearerTokens :
          ((t.exp <= now \/ t.key # ServerSecret) /\ ProtectedRequest(t)) => Rejected401
      ]_vars

\* C8 amended: a token whose expiry is before the current time, or that is
\* not signed with the server secret, is rejected with 401 by every endpoint
\* that takes a bearer credential, and nothing stored changes.
C8_ExpiredOrForgedRejected ==
    [][\A t \in BearerTokens :
          ((t.exp < now \/ t.key # ServerSecret) /\ ProtectedRequest(t)) => Rejected401
      ]_vars

\* backend.py answers 401 while a token it issued has expired and the store
\* holds a post.
C8_Witness ==
    /\ resp = Response(401)
    /\ Len(posts) >= 1
    /\ \E t \in issued : t.key = BackendSecret /\ t.exp < now

\* C9: every token a server has issued is for a wallet for which a request
\* to its auth endpoint ran the signature verification and it succeeded.
C9_TokenOnlyAfterVerification ==
    \A t \in issued : <<t.key, t.sub>> \in verified

\* backend.py has issued a token for one wallet and none for the other, and
\* the request served last was refused.
C9_Witness ==
    /\ variant = "backend"
    /\ resp = Response(401)
    /\ \E t \in issued : t.sub = "w1"
    /\ \A t \in issued : t.sub # "w2"
    /\ <<BackendSecret, "w2">> \notin verified

\* The step is a request to the auth endpoint that reaches the signature
\* verification, and the signature is not one of this wallet over this message.
VerificationFails(a, m, s) ==
    /\ Pubkey_from_string_ok(a)
    /\ pubkey_verify(a, m, s) = "false"
    /\ \/ variant = "backend" /\ wallet_auth(a, m, s)
       \/ variant = "app" /\ WalletAuthRequest_ok(a, m) /\ app_wallet_auth(a, m, s, "success")

\* C10: when the signature verification fails at the auth endpoint, the
\* response is 401, no token is issued and no User row is created.
C10_FailedVerification401 ==
    [][\A a \in Addresses, m \in Messages, s \in Sigs :
          VerificationFails(a, m, s)
              => resp'.status = 401 /\ issued' = issued /\ users' = users
      ]_vars

\* ------------------------------------------------------------ attribution
\* The step is a create_post of either server made with this token, and what
\* it stored carries the token's subject as its wallet; on backend.py a body
\* naming another wallet is answered 403 and stores nothing.
CreateAttributed(token) ==
    /\ \A b \in PostCreateBodies :
          (variant = "backend" /\ create_post(token, b)) =>
              /\ posts' # posts =>
                    /\ get_current_user(token).status = 200
                    /\ Len(posts') = Len(posts) + 1
                    /\ SubSeq(posts', 1, Len(posts)) = posts
                    /\ posts'[Len(posts')].wallet_address = token.sub
              /\ (/\ get_current_user(token).status = 200
                  /\ PostCreate_ok(b)
                  /\ b.wallet_address # token.sub)
                    => resp' = Response(403) /\ posts' = posts
    /\ \A c \in ContentLens :
          (variant = "app" /\ app_create_post(token, c) /\ app_posts' # app_posts) =>
              /\ app_get_current_user(token).status = 200
              /\ Len(app_posts') = Len(app_posts) + 1
              /\ SubSeq(app_posts', 1, Len(app_posts)) = app_posts
              /\ app_posts'[Len(app_posts')].author_wallet = token.sub

\* The request that like_post puts in flight acts for the token's subject.
FetchAttributed(token) ==
    \A p \in PostIds :
        (variant = "backend" /\ LikeFetch(token, p) /\ reqs' # reqs) =>
            \E q \in BagToSet(reqs') :
                /\ reqs' = reqs (+) SetToBag({q})
                /\ q.wallet_address = token.sub

\* The wallets whose membership in the post's liked_by this step changes.
LikedByDelta(post_id) ==
    (Range(posts'[post_id].liked_by) \ Range(posts[post_id].liked_by))
        \cup (Range(posts[post_id].liked_by) \ Range(posts'[post_id].liked_by))

\* The UPDATE of a like_post request changes the membership of no wallet but
\* the one the request acts for.
UpdateAttributed(q) ==
    LikeUpdate(q) => LikedByDelta(q.post_id) \subseteq {q.wallet_address}

\* C11: every stored post carries the subject of the valid token of the
\* create_post that stored it, a create_post naming another wallet is
\* answered 403 and stores nothing, and every wallet a like_post adds to or
\* removes from liked_by is the subject of that request's token.
C11_MutationsAttributed ==
    [][/\ \A t \in BearerTokens : CreateAttributed(t) /\ FetchAttributed(t)
       /\ \A q \in BagToSet(reqs) : UpdateAttributed(q)
      ]_vars

\* The part of C11 about create_post alone.
PostsAttributed ==
    [][\A t \in BearerTokens : CreateAttributed(t) /\ FetchAttributed(t)]_vars

\* ------------------------------------------------------------- post store
\* C12: create_post with a valid token and content of length 0 or above 280
\* is answered with a validation error (422) and stores nothing; with content
\* of a length from 1 to 280, and on backend.py an author name and the
\* token's wallet in the body, it stores a post with that content. The
\* validators accept exactly the lengths 1..280.
C12_ContentLengthValidated ==
    /\ [](\A n \in 0..281 :
             /\ PostCreate_ok([content |-> n, author |-> 3, wallet_address |-> "w1"])
                    <=> n \in 1..280
             /\ app_PostCreate_ok(n) <=> n \in 1..280)
    /\ [][/\ \A t \in BearerTokens, b \in PostCreateBodies :
                (/\ variant = "backend"
                 /\ get_current_user(t).status = 200
                 /\ create_post(t, b))
                    => IF b.content \notin 1..280
                       THEN resp' = Response(422) /\ posts' = posts
                       ELSE (b.author >= 3 /\ b.wallet_address = t.sub)
                               => /\ resp' = Response(200)
                                  /\ Len(posts') = Len(posts) + 1
                                  /\ posts'[Len(posts')].content = b.content
          /\ \A t \in BearerTokens, c \in ContentLens :
                (/\ variant = "app"
                 /\ app_get_current_user(t).status = 200
                 /\ app_create_post(t, c))
                    => IF c \notin 1..280
                       THEN resp' = Response(422) /\ app_posts' = app_posts
                       ELSE /\ resp' = Response(200)
                            /\ Len(app_posts') = Len(app_posts) + 1
                            /\ app_posts'[Len(app_posts')].content = c
         ]_vars

\* backend.py holds a post of 280 characters, has a token that is valid now,
\* and answered the last request with a validation error.
C12_Witness ==
    /\ \E i \in 1..Len(posts) : posts[i].content = 280
    /\ \E t \in issued : get_current_user(t).status = 200
    /\ resp = Response(422)

TableOf == IF variant = "backend" THEN posts ELSE app_posts

\* The listing has the later created_at first and, among rows of equal
\* created_at, the greater id first.
NewestFirstTiesById(rows, table) ==
    \A i, j \in 1..Len(rows) :
        i < j => \/ table[rows[i]].created_at > table[rows[j]].created_at
                 \/ /\ table[rows[i]].created_at = table[rows[j]].created_at
                    /\ rows[i] > rows[j]

\* C14: GET of the posts returns them by created_at descending, rows of equal
\* created_at by id descending; after creates "a", "b", "c" the result is
\* "c", "b", "a" also when two of them share a created_at.
C14_NewestFirstTiesById ==
    [][(BackendList \/ AppList) => NewestFirstTiesById(listed', TableOf)]_vars

\* C15: GET of the posts with no parameters returns every post in the store,
\* whatever their number.
C15_ListReturnsAll ==
    [][(BackendList \/ AppList) => Range(listed') = 1..Len(TableOf)]_vars

\* ------------------------------------------------- signature verification
\* The step is a request to the auth endpoint of the server deployed.
AuthRequest(a, m, s) ==
    \/ variant = "backend" /\ wallet_auth(a, m, s)
    \/ variant = "app" /\ \E c \in CaptchaOutcomes : app_wallet_auth(a, m, s, c)

\* C16: a request to the auth endpoint whose message does not contain the
\* marker "SolSocial Auth" is refused and no token is issued, also when the
\* signature is the wallet's own over that message.
C16_UnmarkedMessageRejected ==
    [][\A a \in Addresses, m \in Messages, s \in Sigs :
          (~Contains(m, Marker) /\ AuthRequest(a, m, s))
              => resp'.status # 200 /\ issued' = issued
      ]_vars

\* C17: a request to the auth endpoint with a malformed wallet address or a
\* malformed signature is refused with an error response the server raises
\* itself (401 on backend.py; 400, 422 or the captcha's 503 on app.py), never
\* with 200 and never with the 500 of an unhandled exception; no token is
\* issued, no verification counts as passed and no User is created.
C17_VerificationFailsClosed ==
    [][\A a \in Addresses, m \in Messages, s \in Sigs :
          ((~Pubkey_from_string_ok(a) \/ s = BadSig) /\ AuthRequest(a, m, s))
              => /\ resp'.status \in {400, 401, 422, 503}
                 /\ issued' = issued
                 /\ verified' = verified
                 /\ users' = users
      ]_vars

\* app.py has refused an authentication at the signature verification and
\* holds no token and no User.
C17_Witness ==
    /\ variant = "app"
    /\ resp = Refused(400, "str(e)")
    /\ issued = {}
    /\ users = <<>>

\* ------------------------------------------------------------------ users
\* C18: there is never more than one User per wallet, a User once created
\* stays, every wallet that was issued a token has a User, and every
\* authentication request that passed the signature verification, two
\* concurrent first authentications of one wallet included, is answered 200
\* with a token for its wallet.
C18_OneUserAndTokenPerAuth ==
    /\ [](/\ \A i, j \in 1..Len(users) :
               users[i].wallet_address = users[j].wallet_address => i = j
          /\ \A t \in issued : t.key = AppSecret => user_by_wallet(users, t.sub) # 0)
    /\ [][/\ Len(users') >= Len(users)
          /\ \A i \in 1..Len(users) : users'[i].wallet_address = users[i].wallet_address
          /\ \A q \in BagToSet(auth_reqs) :
                AuthCommit(q) =>
                    /\ resp' = Response(200)
                    /\ \E t \in issued' : t.key = AppSecret /\ t.sub = q.wallet_address
         ]_vars

\* ------------------------------------------------------ like toggle, again
\* C19: in every reachable state, with toggles interleaved in every way, no
\* wallet occurs twice in the liked_by of a post.
C19_LikedByNoDuplicates ==
    \A i \in 1..Len(posts) :
        \A a, b \in 1..Len(posts[i].liked_by) :
            posts[i].liked_by[a] = posts[i].liked_by[b] => a = b

\* One wallet's two concurrent like_post requests on a post have both
\* completed, each having appended the wallet to the list it fetched.
C19_Witness ==
    \E i \in 1..Len(posts) :
        /\ toggled[i]["w1"] = 2
        /\ posts[i].liked_by = <<"w1">>

\* C20: a like_post request on post P leaves the likes and liked_by of every
\* other post, and the id, content, author, wallet_address and created_at of
\* every post, as they were, whatever requests on other posts it interleaves
\* with.
C20_LikeTouchesOnlyItsPost ==
    [][/\ \A t \in BearerTokens, p \in PostIds : LikeFetch(t, p) => posts' = posts
       /\ \A q \in BagToSet(reqs) :
             LikeUpdate(q) =>
                 /\ Len(posts') = Len(posts)
                 /\ \A j \in 1..Len(posts) :
                       IF j = q.post_id
                       THEN [posts'[j] EXCEPT !.likes = posts[j].likes,
                                              !.liked_by = posts[j].liked_by] = posts[j]
                       ELSE posts'[j] = posts[j]
      ]_vars

\* Requests on two posts were in flight together and have completed: each
\* post is liked by the wallet that asked.
C20_Witness ==
    /\ Len(posts) = 2
    /\ nlikes = 2
    /\ reqs = EmptyBag
    /\ posts[1].liked_by = <<"w1">>
    /\ posts[2].liked_by = <<"w2">>

\* ------------------------------------------------------------ append-only
\* The identity of a stored post: what no operation may rewrite.
Identity(row) ==
    [id |-> row.id, content |-> row.content, author |-> row.author,
     wallet_address |-> row.wallet_address, created_at |-> row.created_at]

\* C21: in every step of every operation of either server, each post in the
\* store stays in the store, at its place, with its id, content, author
\* wallet and created_at.
C21_PostsAppendOnly ==
    [][/\ Len(posts') >= Len(posts)
       /\ \A i \in 1..Len(posts) : Identity(posts'[i]) = Identity(posts[i])
       /\ Len(app_posts') >= Len(app_posts)
       /\ \A i \in 1..Len(app_posts) : app_posts'[i] = app_posts[i]
      ]_vars

\* backend.py holds a post created at an earlier clock reading and liked
\* since.
C21_Witness ==
    /\ Len(posts) >= 1
    /\ posts[1].created_at < now
    /\ posts[1].likes = 1

\* ----------------------------------------------------------------- replay
\* The step is a request to the auth endpoint with this triple, and on app.py
\* a captcha that passes.
Replay(triple) ==
    \/ variant = "backend" /\ wallet_auth(triple[1], triple[2], triple[3])
    \/ variant = "app" /\ app_wallet_auth(triple[1], triple[2], triple[3], "success")

C23_ExpiryAfterIssuance ==
    [][\A t \in issued' \ issued :
          /\ t.exp = now + jwt_expire_minutes
          /\ t.exp > now
      ]_vars

\* --------------------------------------------------- frontend and backend
\* The step is a login through the frontend that reaches the auth endpoint
\* of backend.py.
FrontLoginReaches(w) ==
    /\ variant = "backend"
    /\ front_login(w, <<"api">>)

\* The backend has accepted what the frontend submitted for this wallet.
FrontAuthenticated(w) ==
    <<w, MsgFront, Sign(w, MsgFront)>> \in accepted

\* C24: a login through the frontend that reaches the backend's auth endpoint
\* with the wallet's own signature of the frontend's message is answered 200
\* with a token for the wallet, and a user who logs in through the frontend
\* is authenticated in the end.
C24_FrontendLoginSucceeds ==
    /\ [][\A w \in Wallets :
             FrontLoginReaches(w)
                 => /\ resp' = Response(200)
                    /\ \E t \in issued' : t.key = BackendSecret /\ t.sub = w
         ]_vars
    /\ <>(\E w \in Wallets : FrontAuthenticated(w))

====
